---- MODULE Spec2Model ----
(***************************************************************************)
(* A model of zeitdieb.py: the StopWatch line timer (the tracing hooks of  *)
(* one interpreter thread, the per-code cursors and the table of line      *)
(* times, finish() and the report it builds) and the three web adapters    *)
(* (pyramid, flask, fastapi) that start and finish a StopWatch per         *)
(* request.                                                                *)
(*                                                                         *)
(* Python values: None is 0 for a trace function (a hook or a frame's      *)
(* f_trace; otherwise the number of the StopWatch whose bound method it    *)
(* is), and the record NoResult for StopWatch.result.  A dict is a         *)
(* function whose domain grows.  A Counter is a total function with 0 for  *)
(* the keys it does not hold (Counter.__missing__), since the code never   *)
(* iterates over one.  A frame object is named by a number; a new frame    *)
(* takes a number that nothing refers to any more.                         *)
(***************************************************************************)
EXTENDS Integers, Sequences, FiniteSets, TLC

(***************************************************************************)
(* Bounds of the model and the traced program's layout.                    *)
(***************************************************************************)
\* the last reading of monotonic() that the model follows
MaxClock == 1
\* how many frames of the watched routine exist at once
MaxFrames == 2
\* the traced file: module-level code, then the routine f, defined at line
\* DefLine ("def f():"), with the NumBody lines of its body
DefLine == 2
NumBody == 2
\* how many calls of start, __enter__ and finish the running code makes
MaxOps == 4
\* how long one run of a hook callback may take between its two clock reads
MaxHookDelay == 1

FileLines == DefLine + NumBody
\* the report asks the Counter for a key one past the routine's last line
LineNos == 1..(FileLines + 1)
Codes == {"f", "m"}
FLines == DefLine..(DefLine + NumBody)
FBody == (DefLine + 1)..(DefLine + NumBody)
MLines == (1..FileLines) \ FLines
ModuleFrame == 0
\* frame.f_code: the module's frame is the first one, every later frame is a call of f
CodeOf(id) == IF id = ModuleFrame THEN "m" ELSE "f"
Engines == {1, 2}
Requests == {1, 2}

VARIABLES
  clock,       \* the reading monotonic() gives now
  hook,        \* sys.settrace's slot of the thread: 0, or e for sws[e].trace_scope
  stack,       \* the thread's call stack, innermost frame last
  sws,         \* the StopWatch objects, by number
  out,         \* what the format call returned that was the last step
  hookError,   \* the error a hook callback raised into the traced code
  adapter,     \* the web adapter the application installed
  pc,          \* where each request is in its adapter
  header,      \* each request's X-Zeitdieb header, expanded into its specs
  sw,          \* each request's StopWatch (the local sw, flask.g.sw): 0 is unbound
  err,         \* the error the adapter raised while handling each request
  printed,     \* whether the adapter printed the request's report
  cursor,      \* history: per StopWatch and frame, the frame's own last line and
               \* timestamp, and how often finish_frame flushed the frame
  lastOp,      \* history: whether the last operation was a finish(), and whose
  nops,        \* history: how many times the running code has called start,
               \* __enter__ or finish
  call,        \* a call of one of the module's pure functions: its arguments,
               \* and its result once it has returned
  setting      \* the format string the application configured for its adapter

vars == <<clock, hook, stack, sws, out, hookError, adapter, pc, header,
          sw, err, printed, cursor, lastOp, nops, call, setting>>
\* no pure function is being followed
NoCall == [fn |-> "none"]
adapterVars == <<adapter, pc, header, sw, err, printed>>
\* the running code may call one more operation
MayCall == nops < MaxOps

(***************************************************************************)
(* The traced program's source, as inspect.getsourcelines reports it.  A   *)
(* line's text is written as the number of the line that holds it.         *)
(***************************************************************************)
RECURSIVE SumSeq(_)
SumSeq(s) == IF s = <<>> THEN 0 ELSE s[1] + SumSeq(Tail(s))

RECURSIVE SumFun(_, _)
SumFun(f, S) ==
  IF S = {} THEN 0
  ELSE LET x == CHOOSE y \in S : TRUE IN f[x] + SumFun(f, S \ {x})

\* inspect.getsourcelines(frame): (lines, 0) for a module frame, else the block
\* of the routine and the 1-based number of its first line
getsourcelines(code) ==
  IF code = "m"
  THEN [lines |-> [i \in 1..FileLines |-> i], lnum |-> 0]
  ELSE [lines |-> [i \in 1..(NumBody + 1) |-> DefLine + i - 1], lnum |-> DefLine]

\* the lines a frame of the code can be on once it runs
BodyLines(code) == IF code = "m" THEN MLines ELSE FBody

NoResult == [is_none |-> TRUE, dict |-> <<>>]
EmptyCounter == [l \in LineNos |-> 0]

\* StopWatch.__init__
StopWatchInit(trace) ==
  [codes_to_trace |-> trace,
   lines |-> <<>>,
   offset |-> <<>>,
   times |-> <<>>,
   t_last |-> <<>>,
   l_last |-> <<>>,
   open_frames |-> {},
   result |-> NoResult]

\* d[k] = v on a dict
Put(d, k, v) == [x \in DOMAIN d \cup {k} |-> IF x = k THEN v ELSE d[x]]

\* self.times[code][line] += amount on the defaultdict of Counters
AddTime(times, code, line, amount) ==
  LET old == IF code \in DOMAIN times THEN times[code] ELSE EmptyCounter
  IN Put(times, code, [old EXCEPT ![line] = @ + amount])

\* StopWatch.prepare_frame
prepare_frame(S, frame, now) ==
  LET src == getsourcelines(frame.code)
  IN [S EXCEPT !.lines = Put(@, frame.code, src.lines),
               !.offset = Put(@, frame.code, src.lnum),
               !.l_last = Put(@, frame.code, frame.lineno),
               !.t_last = Put(@, frame.code, now)]

\* StopWatch.trace_line on a "line" event: t_now is the first clock reading,
\* t_after the second
trace_line(S, frame, t_now, t_after) ==
  LET code == frame.code
  IN [S EXCEPT !.open_frames = @ \cup {frame.id},
               !.times = AddTime(@, code, S.l_last[code], t_now - S.t_last[code]),
               !.l_last = Put(@, code, frame.lineno),
               !.t_last = Put(@, code, t_after)]

\* finish_frame without its last line, self.open_frames.remove(frame)
finish_frame_keeps_open(S, frame, t_now) ==
  LET code == frame.code
  IN [sw |-> [S EXCEPT !.times = AddTime(@, code, S.l_last[code], t_now - S.t_last[code])],
      raised |-> frame.id \notin S.open_frames]

\* StopWatch.finish_frame: the table is credited before set.remove raises
\* KeyError for a frame that is not in open_frames
finish_frame(S, frame, t_now) ==
  LET code == frame.code
  IN [sw |-> [S EXCEPT !.times = AddTime(@, code, S.l_last[code], t_now - S.t_last[code]),
                       !.open_frames = @ \ {frame.id}],
      raised |-> frame.id \notin S.open_frames]

RECURSIVE FlushAll(_, _, _)
\* the loop of finish over list(self.open_frames), each a finish_frame
FlushAll(S, ids, t_now) ==
  IF ids = {} THEN S
  ELSE LET id == CHOOSE x \in ids : TRUE
       IN FlushAll(finish_frame(S, [id |-> id, code |-> CodeOf(id)], t_now).sw,
                   ids \ {id}, t_now)

\* the report finish builds for one code: a triple per captured source line
ReportLines(S, code) ==
  [lno \in 1..Len(S.lines[code]) |->
     [lno |-> lno + S.offset[code],
      count |-> S.times[code][lno + S.offset[code]],
      text |-> S.lines[code][lno]]]

\* StopWatch.finish, but for sys.settrace(None)
finish(S, t_now) ==
  LET F == FlushAll(S, S.open_frames, t_now)
  IN [F EXCEPT !.result =
        [is_none |-> FALSE,
         dict |-> [code \in DOMAIN F.times |-> ReportLines(F, code)]]]

\* StopWatch.trace_scope: what the hook does on a "call" event, and the local
\* trace function it returns for the new frame
trace_scope(S, e, frame, now) ==
  IF frame.code \in S.codes_to_trace
  THEN [sw |-> prepare_frame(S, frame, now), f_trace |-> e]
  ELSE [sw |-> S, f_trace |-> 0]

\* not self.result: None and the empty dict are both false
Falsy(result) == result.is_none \/ DOMAIN result.dict = {}

\* total = sum(t for _, t, _ in lines) of __format__
total(lines) == SumSeq([i \in 1..Len(lines) |-> lines[i].count])

(***************************************************************************)
(* ColorPicker.  A duration is a whole number of clock units; a color is   *)
(* the sequence of its three components.                                   *)
(***************************************************************************)
\* ColorPicker.COLOR_RANGE
COLOR_RANGE ==
  [n \in 1..3 |->
     CASE n = 3 -> << <<255, 0, 0>>, <<255, 215, 0>>, <<255, 255, 200>>, <<0, 255, 0>> >>
       [] n = 2 -> << <<255, 0, 0>>, <<255, 215, 0>>, <<0, 255, 0>> >>
       [] n = 1 -> << <<255, 0, 0>>, <<0, 255, 0>> >>]

\* ColorPicker.__init__: COLOR_RANGE[len(thresholds)] raises KeyError for a
\* length that has no color table
ColorPickerInit(thresholds) ==
  IF Len(thresholds) \in DOMAIN COLOR_RANGE
  THEN [raised |-> FALSE, thresholds |-> thresholds, colors |-> COLOR_RANGE[Len(thresholds)]]
  ELSE [raised |-> TRUE, thresholds |-> thresholds, colors |-> <<>>]

\* int(first + fraction * diff) with fraction = (value - start) / (stop - start),
\* for stop < start: the sum is not negative, so int() rounds it down
Interpolate(first, second, value, t_start, t_stop) ==
  ((first * (t_start - t_stop)) + ((t_start - value) * (second - first))) \div (t_start - t_stop)

RECURSIVE PickFrom(_, _, _)
\* the for loop of ColorPicker.__call__ from bracket i on, and the return
\* after it
PickFrom(cp, value, i) ==
  IF i > Len(cp.thresholds) THEN cp.colors[Len(cp.colors)]
  ELSE LET t_start == cp.thresholds[i]
           t_stop == IF i < Len(cp.thresholds) THEN cp.thresholds[i + 1] ELSE 0
       IN IF t_start >= value /\ value >= t_stop
          THEN [c \in 1..3 |->
                  Interpolate(cp.colors[i][c], cp.colors[i + 1][c], value, t_start, t_stop)]
          ELSE PickFrom(cp, value, i + 1)

\* ColorPicker.__call__
ColorPickerCall(cp, value) ==
  IF value >= cp.thresholds[1] THEN cp.colors[1]
  ELSE PickFrom(cp, value, 1)

(***************************************************************************)
(* Rendering.  A format string is the record of its parts, as the          *)
(* partitions of __format__ cut them: the width digits, the flag letters,  *)
(* the text after ">" and the text after ":".  A part that is empty is     *)
(* NoText; a number is written in whole clock units of 0.01 s.  The text   *)
(* that is returned is the sequence of the items written to the buffer.    *)
(***************************************************************************)
NoText == [given |-> FALSE, number |-> FALSE, value |-> 0]
Given(v) == [given |-> TRUE, number |-> TRUE, value |-> v]
\* the empty text where a list of numbers is read
NoList == [given |-> FALSE, number |-> FALSE, value |-> <<>>]
\* a text that float() refuses
NotANumber == [given |-> TRUE, number |-> FALSE, value |-> 0]
\* the thresholds __format__ takes when the format string names none: [0.1, 0.01]
DefaultThresholds == <<10, 1>>
\* the width __format__ takes when the format string names none
DefaultWidth == 5

\* max(time for _, time, _ in lines)
MaxTime(lines) ==
  CHOOSE m \in {lines[i].count : i \in DOMAIN lines} :
    \A i \in DOMAIN lines : lines[i].count <= m

\* len(str(n)) for a number below 100
Digits(n) == IF n < 10 THEN 1 ELSE 2

\* TimeFormatter.__init__: it constructs its ColorPicker
TimeFormatterInit(width, thresholds, flags) ==
  LET color == ColorPickerInit(thresholds)
  IN [raised |-> color.raised, width |-> width, thresholds |-> thresholds,
      precision |-> width - 2, max_time |-> 0, flags |-> flags, color |-> color]

\* TimeFormatter.set_max
set_max(tf, max_time) ==
  [tf EXCEPT !.precision = tf.width - (Digits(max_time) + 1), !.max_time = max_time]

\* TimeFormatter.__call__: the bar divides by max_time (ZeroDivisionError when
\* that is 0); format_time writes blanks for a zero time; the text is told
\* by what it is computed from
TimeFormatterCall(tf, time, final) ==
  LET bar == "b" \in tf.flags /\ ~final
  IN [raised |-> bar /\ tf.max_time = 0,
      text |-> [time |-> time,
                bar |-> bar,
                log |-> bar /\ "l" \in tf.flags /\ time # 0,
                blank |-> ~bar /\ time = 0,
                width |-> tf.width,
                precision |-> IF tf.precision > 1 THEN tf.precision ELSE 1,
                max_time |-> IF bar THEN tf.max_time ELSE 0,
                bold |-> final,
                color |-> ColorPickerCall(tf.color, time)]]

RECURSIVE write_lines_no_closing_marker(_, _, _, _, _, _)
\* the loop of __format__ over the lines without the gap marker after the
\* loop: a run of hidden lines at the end of the block leaves no marker
write_lines_no_closing_marker(lines, i, flags, thresholds, tf, gap_marker_needed) ==
  IF i > Len(lines)
  THEN [raised |-> FALSE, items |-> <<>>]
  ELSE IF flags \cap {"q", "Q"} # {} /\ lines[i].count <= thresholds[Len(thresholds)]
  THEN write_lines_no_closing_marker(lines, i + 1, flags, thresholds, tf,
                                     IF "q" \in flags THEN TRUE ELSE gap_marker_needed)
  ELSE LET time == TimeFormatterCall(tf, lines[i].count, FALSE)
           rest == write_lines_no_closing_marker(lines, i + 1, flags, thresholds, tf, FALSE)
           gap == IF gap_marker_needed THEN <<[kind |-> "gap"]>> ELSE <<>>
       IN [raised |-> time.raised \/ rest.raised,
           items |-> gap \o <<[kind |-> "line", time |-> time.text,
                               lno |-> lines[i].lno, text |-> lines[i].text]>>
                         \o rest.items]

RECURSIVE write_lines(_, _, _, _, _, _)
\* the loop of __format__ over the lines of a block from line i on, with the
\* closing gap marker: the items written, and whether the formatter raised
write_lines(lines, i, flags, thresholds, tf, gap_marker_needed) ==
  IF i > Len(lines)
  THEN [raised |-> FALSE,
        items |-> IF gap_marker_needed THEN <<[kind |-> "gap"]>> ELSE <<>>]
  ELSE IF flags \cap {"q", "Q"} # {} /\ lines[i].count <= thresholds[Len(thresholds)]
  THEN write_lines(lines, i + 1, flags, thresholds, tf,
                   IF "q" \in flags THEN TRUE ELSE gap_marker_needed)
  ELSE LET time == TimeFormatterCall(tf, lines[i].count, FALSE)
           rest == write_lines(lines, i + 1, flags, thresholds, tf, FALSE)
           gap == IF gap_marker_needed THEN <<[kind |-> "gap"]>> ELSE <<>>
       IN [raised |-> time.raised \/ rest.raised,
           items |-> gap \o <<[kind |-> "line", time |-> time.text,
                               lno |-> lines[i].lno, text |-> lines[i].text]>>
                         \o rest.items]

\* one turn of the loop of __format__ over self.result.items()
write_block(code, lines, flags, thresholds, min_duration, tf0) ==
  IF min_duration # 0 /\ total(lines) <= min_duration  \* "if min_duration and ..."
  THEN [raised |-> FALSE, items |-> <<>>]
  ELSE LET tf == set_max(tf0, MaxTime(lines))
           body == write_lines(lines, 1, flags, thresholds, tf, FALSE)
       IN [raised |-> body.raised,
           items |-> <<[kind |-> "header", code |-> code, log |-> "l" \in flags]>>
                       \o body.items
                       \o <<[kind |-> "rule", width |-> tf.width],
                            [kind |-> "total",
                             time |-> TimeFormatterCall(tf, total(lines), TRUE).text]>>]

\* StopWatch.__repr__
repr(S) == [kind |-> "repr", finished |-> ~Falsy(S.result), blocks |-> <<>>]

\* __format__ that reads its format string before it looks at the result:
\* a bad format string raises also for a StopWatch that has no report
format_parsing_first(S, fmt) ==
  IF fmt.min_duration.given /\ ~fmt.min_duration.number
  THEN [kind |-> "ValueError", finished |-> FALSE, blocks |-> <<>>]
  ELSE IF fmt.thresholds.given /\ ColorPickerInit(fmt.thresholds.value).raised
  THEN [kind |-> "KeyError", finished |-> FALSE, blocks |-> <<>>]
  ELSE repr(S)

\* StopWatch.__format__: the placeholder of __repr__ for a false result; else
\* the blocks, by code; or the error that leaves the call
format(S, fmt) ==
  IF Falsy(S.result) THEN repr(S)
  ELSE IF fmt.min_duration.given /\ ~fmt.min_duration.number
  THEN [kind |-> "ValueError", finished |-> FALSE, blocks |-> <<>>]
  ELSE LET \* float(min_duration), or the empty text: 0 stands for both, as
           \* both are false
           min_duration == IF fmt.min_duration.given THEN fmt.min_duration.value ELSE 0
           flags == IF "b" \notin fmt.flags THEN fmt.flags \ {"l"} ELSE fmt.flags
           width == IF fmt.width.given THEN fmt.width.value ELSE DefaultWidth
           thresholds == IF fmt.thresholds.given THEN fmt.thresholds.value
                         ELSE DefaultThresholds
           formatter == TimeFormatterInit(width, thresholds, flags)
           blocks == [code \in DOMAIN S.result.dict |->
                        write_block(code, S.result.dict[code], flags, thresholds,
                                    min_duration, formatter)]
       IN IF formatter.raised
          THEN [kind |-> "KeyError", finished |-> FALSE, blocks |-> <<>>]
          ELSE IF \E code \in DOMAIN blocks : blocks[code].raised
          THEN [kind |-> "ZeroDivisionError", finished |-> FALSE, blocks |-> <<>>]
          ELSE [kind |-> "report", finished |-> TRUE,
                blocks |-> [code \in DOMAIN blocks |-> blocks[code].items]]

\* the format string with the given parts
Fmt(width, flags, min_duration, thresholds) ==
  [width |-> width, flags |-> flags, min_duration |-> min_duration,
   thresholds |-> thresholds]
\* "", the format of an adapter that is not configured
NoFormat == Fmt(NoText, {}, NoText, NoList)
\* "3", the format of __str__
StrFormat == Fmt(Given(3), {}, NoText, NoList)
\* ":4,3,2,1", four thresholds: there is no color table for them
BadThresholds == Fmt(NoText, {}, NoText, Given(<<4, 3, 2, 1>>))
\* the format strings the running code formats its StopWatch with
Formats == {StrFormat, BadThresholds}

\* no format call was the last step
NoOutput ==
  [op |-> "none", e |-> 0, fmt |-> NoFormat,
   text |-> [kind |-> "none", finished |-> FALSE, blocks |-> <<>>]]
\* the kinds of text that are an error leaving the call
Errors == {"KeyError", "ValueError", "ZeroDivisionError"}

(***************************************************************************)
(* The interpreter thread.                                                 *)
(***************************************************************************)
Top == stack[Len(stack)]
\* the frame has passed its "call" event and its first "line" event
Executing(frame) == frame.lineno \in BodyLines(frame.code)
\* traced code runs: always under the plain program, during a request's
\* handler under an adapter
\* the StopWatch objects the program holds
Live == {sw[r] : r \in Requests} \ {0}
Working == adapter = "none" \/ \E r \in Requests : pc[r] = "work"
\* events reach a frame's local trace function only while the thread traces
Traced(frame) == hook # 0 /\ frame.f_trace # 0
SetTop(st, frame) == [st EXCEPT ![Len(st)] = frame]
\* history: the last operation was no finish()
Other == [op |-> "other", e |-> 0, again |-> FALSE]

\* the frame numbers in use: a frame on the stack, or one a StopWatch or the
\* history still refers to
InUse ==
  {stack[i].id : i \in DOMAIN stack}
    \cup UNION {sws[e].open_frames : e \in Engines}
    \cup UNION {DOMAIN cursor[e] : e \in Engines}
FreeIds == (1..MaxFrames) \ InUse
NewId == CHOOSE id \in FreeIds : \A other \in FreeIds : id <= other

\* history: forget the frames that are closed as they should be: off the
\* stack, out of open_frames and flushed once
Closed(cur, st, S) ==
  [e \in Engines |->
     LET gone == {id \in DOMAIN cur[e] :
                    /\ \A i \in DOMAIN st : st[i].id # id
                    /\ id \notin S[e].open_frames
                    /\ cur[e][id].flushes = 1}
     IN [id \in DOMAIN cur[e] \ gone |-> cur[e][id]]]

\* history: the frame is created for StopWatch e, or attached once more
Created(cur, e, frame, now) ==
  [cur EXCEPT ![e] = Put(@, frame.id,
     [line |-> frame.lineno, time |-> now,
      flushes |-> IF frame.id \in DOMAIN @ THEN @[frame.id].flushes ELSE 0])]
\* history: the frame's cursor moves on a "line" event
Moved(cur, e, frame, now) ==
  [cur EXCEPT ![e][frame.id].line = frame.lineno, ![e][frame.id].time = now]
\* history: finish_frame ran for these frames
Flushed(cur, e, ids) ==
  [cur EXCEPT ![e] = [id \in DOMAIN @ |->
     IF id \in ids THEN [@[id] EXCEPT !.flushes = @ + 1] ELSE @[id]]]

\* time passes in the traced code
Tick ==
  /\ UNCHANGED <<call, setting>>
  /\ Working
  /\ clock < MaxClock
  /\ clock' = clock + 1
  /\ UNCHANGED <<hook, stack, sws, out, hookError, adapterVars,
                 cursor, lastOp, nops>>

\* the running frame calls f: the "call" event goes to the thread's hook
Call ==
  /\ UNCHANGED <<call, setting>>
  /\ Working
  /\ Executing(Top)
  /\ FreeIds # {}
  /\ LET frame == [id |-> NewId, code |-> "f", lineno |-> DefLine, f_trace |-> 0]
     IN IF hook = 0
        THEN /\ stack' = Append(stack, frame)
             /\ UNCHANGED <<sws, cursor>>
        ELSE LET r == trace_scope(sws[hook], hook, frame, clock)
             IN /\ stack' = Append(stack, [frame EXCEPT !.f_trace = r.f_trace])
                /\ sws' = [sws EXCEPT ![hook] = r.sw]
                /\ cursor' = IF r.f_trace = 0 THEN cursor
                             ELSE Created(cursor, hook, frame, clock)
  /\ UNCHANGED nops
  /\ out' = NoOutput
  /\ lastOp' = Other
  /\ UNCHANGED <<clock, hook, hookError, adapterVars>>

\* the running frame reaches line l: the "line" event goes to its f_trace
Line(l) ==
  /\ UNCHANGED <<call, setting>>
  /\ Working
  /\ l \in BodyLines(Top.code)
  /\ LET frame == [Top EXCEPT !.lineno = l]
         e == Top.f_trace
     IN /\ stack' = SetTop(stack, frame)
        /\ IF Traced(Top)
           THEN \E d \in 0..MaxHookDelay :
                  /\ clock + d <= MaxClock
                  /\ clock' = clock + d
                  /\ sws' = [sws EXCEPT ![e] = trace_line(@, frame, clock, clock + d)]
                  /\ cursor' = Moved(cursor, e, frame, clock + d)
           ELSE UNCHANGED <<clock, sws, cursor>>
  /\ UNCHANGED nops
  /\ out' = NoOutput
  /\ lastOp' = Other
  /\ UNCHANGED <<hook, hookError, adapterVars>>

\* the running frame returns: the "return" event goes to its f_trace.  When
\* the callback raises, the interpreter clears the hook, and the error
\* unwinds the caller and maybe more callers until one catches it.
Return ==
  /\ UNCHANGED <<call, setting>>
  /\ Working
  /\ Len(stack) > 1
  /\ Executing(Top)
  /\ LET e == Top.f_trace
         r == finish_frame(sws[e], Top, clock)
     IN IF Traced(Top)
        THEN /\ sws' = [sws EXCEPT ![e] = r.sw]
             /\ IF r.raised
                THEN /\ hookError' = "KeyError"
                     /\ hook' = 0
                     /\ \E k \in 1..(Len(stack) - 1) :
                          stack' = SubSeq(stack, 1, Len(stack) - k)
                ELSE /\ stack' = SubSeq(stack, 1, Len(stack) - 1)
                     /\ UNCHANGED <<hook, hookError>>
             /\ cursor' = Closed(Flushed(cursor, e, {Top.id}), stack', sws')
        ELSE /\ stack' = SubSeq(stack, 1, Len(stack) - 1)
             /\ cursor' = Closed(cursor, stack', sws)
             /\ UNCHANGED <<sws, hook, hookError>>
  /\ UNCHANGED nops
  /\ out' = NoOutput
  /\ lastOp' = Other
  /\ UNCHANGED <<clock, adapterVars>>

(***************************************************************************)
(* The StopWatch's operations, called by the running code.                 *)
(***************************************************************************)
\* StopWatch.start
start(e) == hook' = e

\* sw.start()
Start(e) ==
  /\ UNCHANGED <<call, setting>>
  /\ adapter = "none"
  /\ Executing(Top)
  /\ MayCall
  /\ nops' = nops + 1
  /\ start(e)
  /\ out' = NoOutput
  /\ lastOp' = Other
  /\ UNCHANGED <<clock, stack, sws, hookError, adapterVars, cursor>>

\* StopWatch.__enter__: attaches to the caller's frame
Enter(e) ==
  /\ UNCHANGED <<call, setting>>
  /\ adapter = "none"
  /\ Executing(Top)
  /\ MayCall
  /\ nops' = nops + 1
  /\ start(e)
  /\ stack' = SetTop(stack, [Top EXCEPT !.f_trace = e])
  /\ sws' = [sws EXCEPT ![e] = prepare_frame(@, Top, clock)]
  /\ cursor' = Created(cursor, e, Top, clock)
  /\ out' = NoOutput
  /\ lastOp' = Other
  /\ UNCHANGED <<clock, hookError, adapterVars>>

\* what a call of sw.finish() does to the thread and the StopWatch
DoFinish(e) ==
  /\ sws' = [sws EXCEPT ![e] = finish(@, clock)]
  /\ hook' = 0
  /\ cursor' = Closed(Flushed(cursor, e, sws[e].open_frames), stack, sws')
  /\ lastOp' = [op |-> "finish", e |-> e,
                again |-> lastOp.op = "finish" /\ lastOp.e = e]

\* sw.finish(), and StopWatch.__exit__
Finish(e) ==
  /\ UNCHANGED <<call, setting>>
  /\ adapter = "none"
  /\ Executing(Top)
  /\ MayCall
  /\ nops' = nops + 1
  /\ DoFinish(e)
  /\ UNCHANGED <<clock, stack, hookError, adapterVars>>
  /\ out' = NoOutput

\* a format call that first calls finish(), to render what was traced so far
Format_finishing(e) ==
  /\ UNCHANGED <<call, setting>>
  /\ adapter = "none"
  /\ Executing(Top)
  /\ DoFinish(e)
  /\ \E f \in Formats :
       out' = [op |-> "format", e |-> e, fmt |-> f, text |-> format(sws'[e], f)]
  /\ UNCHANGED <<clock, stack, hookError, adapterVars, nops>>

\* format(sw, fmt), str(sw)
Format(e) ==
  /\ UNCHANGED <<call, setting>>
  /\ adapter = "none"
  /\ Executing(Top)
  /\ \E f \in Formats :
       out' = [op |-> "format", e |-> e, fmt |-> f, text |-> format(sws[e], f)]
  /\ lastOp' = Other
  /\ UNCHANGED <<clock, hook, stack, sws, hookError, adapterVars, cursor, nops>>

\* repr(sw)
Repr(e) ==
  /\ UNCHANGED <<call, setting>>
  /\ adapter = "none"
  /\ Executing(Top)
  /\ out' = [op |-> "repr", e |-> e, fmt |-> NoFormat, text |-> repr(sws[e])]
  /\ lastOp' = Other
  /\ UNCHANGED <<clock, hook, stack, sws, hookError, adapterVars, cursor, nops>>

(***************************************************************************)
(* The plain program: two StopWatch objects watching f, driven by any      *)
(* calls the running code makes.                                           *)
(***************************************************************************)
Init ==
  /\ clock = 0
  /\ hook = 0
  /\ stack = <<[id |-> ModuleFrame, code |-> "m", lineno |-> 1, f_trace |-> 0]>>
  /\ sws = [e \in Engines |-> StopWatchInit({"f"})]
  /\ out = NoOutput
  /\ hookError = "none"
  /\ adapter = "none"
  /\ pc = [r \in Requests |-> "new"]
  /\ header = [r \in Requests |-> <<>>]
  /\ sw = [r \in Requests |-> IF r = 1 THEN 1 ELSE 0]
  /\ err = [r \in Requests |-> "none"]
  /\ printed = [r \in Requests |-> FALSE]
  /\ cursor = [e \in Engines |-> <<>>]
  /\ lastOp = Other
  /\ nops = 0
  /\ call = NoCall
  /\ setting = NoFormat

Next ==
  \/ Tick
  \/ Call
  \/ \E l \in 1..FileLines : Line(l)
  \/ Return
  \/ \E e \in Live : Start(e)
  \/ \E e \in Live : Enter(e)
  \/ \E e \in Live : Finish(e)
  \/ \E e \in Live : Format(e)
  \/ \E e \in Live : Repr(e)

Spec == Init /\ [][Next]_vars

(***************************************************************************)
(* The web adapters.  A request carries its X-Zeitdieb header as the list  *)
(* of specs it expands to; "f" names the routine f, "x" names nothing.     *)
(* The handler's work is the traced program above, run while the request   *)
(* is at "work".  pyramid and flask handle one request at a time; the      *)
(* fastapi middleware awaits its handler, and another request may begin    *)
(* while it waits.                                                         *)
(***************************************************************************)
Adapters == {"pyramid", "flask", "fastapi"}
NoHeader == [present |-> FALSE, specs |-> <<>>]
Headers ==
  {NoHeader} \cup
  {[present |-> TRUE, specs |-> s] : s \in {<<"f">>, <<"x">>, <<"f", "x">>, <<"x", "f">>}}
\* the specs that name a callable
Resolvable == {"f"}

\* load_dotted: the callable a spec names; a module or an attribute that is
\* not found raises
load_dotted(spec) ==
  IF spec \in Resolvable
  THEN [raised |-> FALSE, value |-> spec]
  ELSE [raised |-> TRUE, value |-> "not found"]

RECURSIVE get_functions_to_trace_skipping(_)
\* get_functions_to_trace that drops a spec that does not resolve and goes on
get_functions_to_trace_skipping(specs) ==
  IF specs = <<>> THEN [raised |-> FALSE, value |-> <<>>]
  ELSE LET first == load_dotted(Head(specs))
           rest == get_functions_to_trace_skipping(Tail(specs))
       IN IF first.raised THEN rest
          ELSE [raised |-> FALSE, value |-> <<first.value>> \o rest.value]

RECURSIVE get_functions_to_trace(_)
\* get_functions_to_trace: the list comprehension over the expanded specs,
\* which ends with the first load_dotted that raises
get_functions_to_trace(specs) ==
  IF specs = <<>> THEN [raised |-> FALSE, value |-> <<>>]
  ELSE LET first == load_dotted(Head(specs))
       IN IF first.raised THEN [raised |-> TRUE, value |-> <<>>]
          ELSE LET rest == get_functions_to_trace(Tail(specs))
               IN IF rest.raised THEN rest
                  ELSE [raised |-> FALSE, value |-> <<first.value>> \o rest.value]

\* f.__code__ for f in trace
CodesOf(trace) == {trace[i] : i \in DOMAIN trace}

\* no other request is being handled (pyramid, flask), or none is running
\* code right now (fastapi: the others wait at their await)
MayRun(r) ==
  /\ Len(stack) = 1
  /\ adapter # "fastapi" => \A q \in Requests \ {r} : pc[q] \notin {"work", "failed"}

\* the adapter up to the handler: pyramid's tween (lines 302-306), flask's
\* before, fastapi's middleware (lines 354-357)
Begin(r) ==
  /\ UNCHANGED <<call, setting>>
  /\ adapter \in Adapters
  /\ pc[r] = "new"
  /\ MayRun(r)
  /\ \E h \in Headers :
       /\ header' = [header EXCEPT ![r] = h]
       /\ IF ~h.present
          THEN /\ pc' = [pc EXCEPT ![r] = "work"]
               /\ UNCHANGED <<hook, sws, sw, err>>
          ELSE LET trace == get_functions_to_trace(h.specs)
               IN IF trace.raised
                  THEN /\ pc' = [pc EXCEPT ![r] = "raised"]
                       /\ err' = [err EXCEPT ![r] = "ResolutionError"]
                       /\ UNCHANGED <<hook, sws, sw>>
                  ELSE /\ sw' = [sw EXCEPT ![r] = r]
                       /\ sws' = [sws EXCEPT ![r] = StopWatchInit(CodesOf(trace.value))]
                       /\ start(r)
                       /\ pc' = [pc EXCEPT ![r] = "work"]
                       /\ UNCHANGED err
  /\ out' = NoOutput
  /\ lastOp' = Other
  /\ UNCHANGED <<clock, stack, hookError, adapter, printed, cursor, nops>>

\* sw.finish() and print(f"{sw:{fmt}}") of an adapter: an error of the
\* format call leaves the adapter before anything is printed
FinishAndPrint(r) ==
  /\ DoFinish(sw[r])
  /\ LET text == format(sws'[sw[r]], setting)
     IN /\ out' = [op |-> "format", e |-> sw[r], fmt |-> setting, text |-> text]
        /\ IF text.kind \in Errors
           THEN /\ err' = [err EXCEPT ![r] = text.kind]
                /\ pc' = [pc EXCEPT ![r] = "raised"]
                /\ UNCHANGED printed
           ELSE /\ printed' = [printed EXCEPT ![r] = TRUE]
                /\ pc' = [pc EXCEPT ![r] = "done"]
                /\ UNCHANGED err

\* flask's after: flask.g.sw raises AttributeError when before set no sw
After(r) ==
  IF sw[r] = 0
  THEN /\ err' = [err EXCEPT ![r] = "AttributeError"]
       /\ pc' = [pc EXCEPT ![r] = "raised"]
       /\ out' = NoOutput
       /\ UNCHANGED <<hook, sws, printed, cursor, lastOp>>
  ELSE FinishAndPrint(r)

\* the handler returns its response: the rest of the adapter runs
HandlerReturns(r) ==
  /\ UNCHANGED <<call, setting>>
  /\ adapter \in Adapters
  /\ pc[r] = "work"
  /\ MayRun(r)
  /\ IF adapter = "flask" THEN After(r)
     ELSE IF ~header[r].present
     THEN /\ pc' = [pc EXCEPT ![r] = "done"]
          /\ out' = NoOutput
          /\ UNCHANGED <<hook, sws, err, printed, cursor, lastOp>>
     ELSE FinishAndPrint(r)
  /\ UNCHANGED <<clock, stack, hookError, adapter, header, sw, nops>>

\* the handler raises: the error leaves pyramid's tween and fastapi's
\* middleware at the call of the handler; flask takes the error
HandlerRaises(r) ==
  /\ UNCHANGED <<call, setting>>
  /\ adapter \in Adapters
  /\ pc[r] = "work"
  /\ MayRun(r)
  /\ pc' = [pc EXCEPT ![r] = IF adapter = "flask" THEN "failed" ELSE "raised"]
  /\ out' = NoOutput
  /\ UNCHANGED <<clock, hook, stack, sws, hookError, adapter, header, sw,
                 err, printed, cursor, lastOp, nops>>

\* flask after the handler's error: it answers with an error response and
\* runs after, or (propagating errors, as under test) raises and does not
FlaskFailed(r) ==
  /\ UNCHANGED <<call, setting>>
  /\ adapter = "flask"
  /\ pc[r] = "failed"
  /\ \E runs \in BOOLEAN :
       IF runs THEN After(r)
       ELSE /\ pc' = [pc EXCEPT ![r] = "raised"]
            /\ out' = NoOutput
            /\ UNCHANGED <<hook, sws, err, printed, cursor, lastOp>>
  /\ UNCHANGED <<clock, stack, hookError, adapter, header, sw, nops>>

\* the format strings an application configures: none, or one whose
\* thresholds have no color table
Settings == {NoFormat, BadThresholds}

InitAdapters ==
  /\ clock = 0
  /\ hook = 0
  /\ stack = <<[id |-> ModuleFrame, code |-> "m", lineno |-> 1, f_trace |-> 0]>>
  /\ sws = [e \in Engines |-> StopWatchInit({})]
  /\ out = NoOutput
  /\ hookError = "none"
  /\ adapter \in Adapters
  /\ pc = [r \in Requests |-> "new"]
  /\ header = [r \in Requests |-> NoHeader]
  /\ sw = [r \in Requests |-> 0]
  /\ err = [r \in Requests |-> "none"]
  /\ printed = [r \in Requests |-> FALSE]
  /\ cursor = [e \in Engines |-> <<>>]
  /\ lastOp = Other
  /\ nops = 0
  /\ call = NoCall
  /\ setting \in Settings

NextAdapters ==
  \/ Tick
  \/ Call
  \/ \E l \in 1..FileLines : Line(l)
  \/ Return
  \/ \E r \in Requests : Begin(r)
  \/ \E r \in Requests : HandlerReturns(r)
  \/ \E r \in Requests : HandlerRaises(r)
  \/ \E r \in Requests : FlaskFailed(r)

SpecAdapters == InitAdapters /\ [][NextAdapters]_vars

(***************************************************************************)
(* The pure functions, each followed on its own: the program itself is at  *)
(* rest, a call starts with arguments drawn from a bounded set, and one    *)
(* step lets the function return.                                          *)
(***************************************************************************)
programVars == <<clock, hook, stack, sws, out, hookError, adapter, pc, header,
                 sw, err, printed, cursor, lastOp, nops, setting>>
AtRest ==
  /\ clock = 0
  /\ hook = 0
  /\ stack = <<[id |-> ModuleFrame, code |-> "m", lineno |-> 1, f_trace |-> 0]>>
  /\ sws = [e \in Engines |-> StopWatchInit({})]
  /\ out = NoOutput
  /\ hookError = "none"
  /\ adapter = "none"
  /\ pc = [r \in Requests |-> "new"]
  /\ header = [r \in Requests |-> NoHeader]
  /\ sw = [r \in Requests |-> 0]
  /\ err = [r \in Requests |-> "none"]
  /\ printed = [r \in Requests |-> FALSE]
  /\ cursor = [e \in Engines |-> <<>>]
  /\ lastOp = Other
  /\ nops = 0
  /\ setting = NoFormat

(***************************************************************************)
(* expand_braces.  A string is the sequence of its characters.             *)
(***************************************************************************)
\* how many pieces (a character or a brace group) a selection string has
MaxPieces == 3

Reverse(s) == [i \in 1..Len(s) |-> s[Len(s) + 1 - i]]
\* the first position from i on that holds one of the characters, or 0
FirstAt(text, i, chars) ==
  IF \E j \in i..Len(text) : text[j] \in chars
  THEN CHOOSE j \in i..Len(text) :
         text[j] \in chars /\ \A k \in i..(j - 1) : text[k] \notin chars
  ELSE 0

RECURSIVE finditer(_, _)
\* [m.span() for m in re.finditer(r"\{[^\{\}]*\}", text)] from position i on:
\* the spans (0-based start, exclusive stop) of the innermost brace groups
finditer(text, i) ==
  IF i > Len(text) THEN <<>>
  ELSE IF text[i] # "{" THEN finditer(text, i + 1)
  ELSE LET j == FirstAt(text, i + 1, {"{", "}"})
       IN IF j # 0 /\ text[j] = "}"
          THEN <<[start |-> i - 1, stop |-> j]>> \o finditer(text, j + 1)
          ELSE finditer(text, i + 1)

RECURSIVE split(_)
\* str.split(",")
split(s) ==
  LET j == FirstAt(s, 1, {","})
  IN IF j = 0 THEN <<s>>
     ELSE <<SubSeq(s, 1, j - 1)>> \o split(SubSeq(s, j + 1, Len(s)))

RECURSIVE Flatten(_)
Flatten(ss) == IF ss = <<>> THEN <<>> ELSE Head(ss) \o Flatten(Tail(ss))

RECURSIVE product(_)
\* itertools.product(*alts): the last list varies fastest
product(alts) ==
  IF alts = <<>> THEN << <<>> >>
  ELSE LET rest == product(Tail(alts))
       IN Flatten([a \in 1..Len(Head(alts)) |->
                     [r \in 1..Len(rest) |-> <<Head(alts)[a]>> \o rest[r]]])

RECURSIVE replace(_, _, _)
\* replaced[start:stop] = replacement for each span, the rightmost first
replace(text, spans, combo) ==
  IF spans = <<>> THEN text
  ELSE replace(SubSeq(text, 1, Head(spans).start) \o Head(combo)
                 \o SubSeq(text, Head(spans).stop + 1, Len(text)),
               Tail(spans), Tail(combo))

RECURSIVE expand_braces(_, _)
RECURSIVE expand_combos(_, _, _, _)
\* expand_braces(text, seen): what the generator yields, and seen afterwards
expand_braces(text0, seen) ==
  LET text == IF (\E i \in DOMAIN text0 : text0[i] = ",") /\ text0[1] # "{"
              THEN <<"{">> \o text0 \o <<"}">>
              ELSE text0
      spans == Reverse(finditer(text, 1))
      alts == [k \in 1..Len(spans) |->
                 split(SubSeq(text, spans[k].start + 2, spans[k].stop - 1))]
  IN IF Len(spans) = 0
     THEN [yield |-> IF text \notin seen THEN <<text>> ELSE <<>>,
           seen |-> seen \cup {text}]
     ELSE expand_combos(text, spans, product(alts), seen)

\* the loop of expand_braces over the combinations
expand_combos(text, spans, combos, seen) ==
  IF combos = <<>> THEN [yield |-> <<>>, seen |-> seen]
  ELSE LET first == expand_braces(replace(text, spans, Head(combos)), seen)
           rest == expand_combos(text, spans, Tail(combos), first.seen)
       IN [yield |-> first.yield \o rest.yield, seen |-> rest.seen]

\* the selection strings under check: up to MaxPieces pieces in a row
Pieces ==
  {<<"a">>, <<"-">>, <<",">>,
   <<"{", "a", ",", "b", "}">>, <<"{", "1", ",", "2", "}">>,
   <<"{", "a", ",", "a", "}">>, <<"{", "a", "}">>}
Texts == UNION {{Flatten(ps) : ps \in [1..n -> Pieces]} : n \in 0..MaxPieces}

InitExpand ==
  /\ AtRest
  /\ call \in {[fn |-> "expand_braces", text |-> t, returned |-> FALSE, result |-> <<>>] :
                 t \in Texts}

\* list(expand_braces(text))
Expand ==
  /\ call.fn = "expand_braces"
  /\ ~call.returned
  /\ call' = [call EXCEPT !.returned = TRUE,
                          !.result = expand_braces(call.text, {}).yield]
  /\ UNCHANGED programVars

NextExpand == Expand

SpecExpand == InitExpand /\ [][NextExpand]_vars

(***************************************************************************)
(* The claims.                                                             *)
(***************************************************************************)
OnStack(id) == \E i \in DOMAIN stack : stack[i].id = id
Finalized(e) == ~sws[e].result.is_none
Running(e) == hook = e /\ ~Finalized(e)

\* what a "line" or "return" event of the running frame credits when the
\* frame keeps its own last line and timestamp
OwnCredit(e) ==
  AddTime(sws[e].times, Top.code, cursor[e][Top.id].line, clock - cursor[e][Top.id].time)

RECURSIVE OwnFlush(_, _, _)
\* what flushing the frames ids credits when each keeps its own last line
\* and timestamp
OwnFlush(times, e, ids) ==
  IF ids = {} THEN times
  ELSE LET id == CHOOSE x \in ids : TRUE
       IN OwnFlush(AddTime(times, CodeOf(id), cursor[e][id].line,
                           clock - cursor[e][id].time),
                   e, ids \ {id})

\* C1: under recursion every invocation keeps its own last line and last
\* timestamp: whenever a line-advance or return event changes the table, the
\* change is the time since the running invocation's own previous event,
\* credited to that invocation's own last line.
C1_CreditsOwnLine ==
  [][\A e \in Engines :
       (lastOp'.op # "finish" /\ sws'[e].times # sws[e].times)
         => sws'[e].times = OwnCredit(e)]_vars

\* C2: finish() with frames still open flushes, for each open frame, the time
\* since that frame's own last timestamp into the entry of that frame's own
\* last line, once, and leaves the open-frame set empty.
C2_FinishFlushesEachOpenFrame ==
  [][\A e \in Engines :
       (lastOp'.op = "finish" /\ lastOp'.e = e)
         => /\ sws'[e].open_frames = {}
            /\ sws'[e].times = OwnFlush(sws[e].times, e, sws[e].open_frames)]_vars

\* C3: the lifecycle is Idle -> Running -> Finalized and never backward: the
\* hook of a Finalized StopWatch is never installed again and its table never
\* changes again, and a Running StopWatch stays Running until it is Finalized.
C3_LifecycleNeverBackward ==
  [][\A e \in Engines :
       /\ Finalized(e) => /\ hook' = e => hook = e
                          /\ sws'[e].times = sws[e].times
       /\ Running(e) => hook' = e \/ ~sws'[e].result.is_none]_vars

\* C4: every opened frame is closed exactly once: no return event closes a
\* frame that is not in the open set, no frame is flushed twice, a frame that
\* has returned was flushed and is out of the open set, and finish() leaves
\* no frame of the StopWatch unflushed.
C4_ClosedExactlyOnce ==
  /\ hookError = "none"
  /\ \A e \in Engines : \A id \in DOMAIN cursor[e] :
       /\ cursor[e][id].flushes <= 1
       /\ ~OnStack(id) => cursor[e][id].flushes = 1 /\ id \notin sws[e].open_frames
       /\ (lastOp.op = "finish" /\ lastOp.e = e) => cursor[e][id].flushes = 1

\* C5: a second finish() right after a finish() is a no-op: it leaves the
\* report, the table, the open-frame set and the hook slot as they were.
C5_SecondFinishNoOp ==
  [][\A e \in Engines :
       (lastOp.op = "finish" /\ lastOp.e = e /\ lastOp'.op = "finish" /\ lastOp'.e = e)
         => /\ sws'[e].result = sws[e].result
            /\ sws'[e].times = sws[e].times
            /\ sws'[e].open_frames = sws[e].open_frames
            /\ hook' = hook]_vars

\* a second finish() in a row has run, after the first one flushed a frame
\* that is still running into a report that holds time
C5_Witness ==
  /\ lastOp.op = "finish" /\ lastOp.again
  /\ \E c \in DOMAIN sws[lastOp.e].result.dict : total(sws[lastOp.e].result.dict[c]) > 0
  /\ \E id \in DOMAIN cursor[lastOp.e] : OnStack(id) /\ cursor[lastOp.e][id].flushes = 1

\* C6: the total rendered for a code is the sum of its table, and every line
\* that was credited with time is in the report with its time.
C6_TotalIsTableSum ==
  \A e \in Engines :
    (lastOp.op = "finish" /\ lastOp.e = e) =>
      \A c \in DOMAIN sws[e].times :
        LET lines == sws[e].result.dict[c]
        IN /\ total(lines) = SumFun(sws[e].times[c], LineNos)
           /\ \A l \in LineNos :
                sws[e].times[c][l] > 0 =>
                  \E i \in DOMAIN lines :
                    lines[i].lno = l /\ lines[i].count = sws[e].times[c][l]

\* C7: at most one StopWatch is Running on the thread: started by a request
\* and not yet finished.
C7_OneRunningEngine ==
  Cardinality({r \in Requests : sw[r] # 0 /\ ~Finalized(sw[r])}) <= 1

\* C8: a request without the header makes the adapter create, start, finish
\* and print no StopWatch and raise no error.
C8_NoHeaderNoOverhead ==
  \A r \in Requests :
    (pc[r] # "new" /\ ~header[r].present)
      => sw[r] = 0 /\ err[r] = "none" /\ ~printed[r]

\* C9: every StopWatch an adapter started is finished, its hook cleared, by
\* the time the request has ended, however the handler ended; the report is
\* printed only after finish().
C9_StartedIsFinished ==
  \A r \in Requests :
    /\ (pc[r] \in {"done", "raised"} /\ sw[r] # 0) => Finalized(sw[r]) /\ hook # sw[r]
    /\ printed[r] => sw[r] # 0 /\ Finalized(sw[r])

\* some spec of the header names nothing
Unresolvable(h) == h.present /\ \E i \in DOMAIN h.specs : h.specs[i] \notin Resolvable

\* C10: resolution is all or nothing: when a spec of the header does not
\* resolve, the request gets no StopWatch, none is constructed or started,
\* and the hook slot stays as it was.
C10_ResolutionAllOrNothing ==
  [][\A r \in Requests :
       /\ Unresolvable(header'[r]) => sw'[r] = 0
       /\ (pc[r] = "new" /\ pc'[r] # "new" /\ Unresolvable(header'[r]))
            => hook' = hook /\ sws' = sws /\ pc'[r] = "raised"]_vars

\* a header whose first spec resolves and whose second does not was refused
\* while another request's StopWatch held the hook
C10_Witness ==
  \E r \in Requests :
    /\ header[r].specs = <<"f", "x">>
    /\ pc[r] = "raised"
    /\ hook # 0

(***************************************************************************)
(* ColorPicker, followed on its own.                                       *)
(***************************************************************************)
\* the highest threshold a threshold list holds
MaxThreshold == 4

RECURSIVE Descending(_, _)
\* the strictly descending lists of n thresholds below top
Descending(n, top) ==
  IF n = 0 THEN {<<>>}
  ELSE UNION {{<<t>> \o rest : rest \in Descending(n - 1, t)} : t \in 1..(top - 1)}
ThresholdLists == UNION {Descending(n, MaxThreshold + 1) : n \in 0..MaxThreshold}
Durations == (0 - 1)..(MaxThreshold + 1)

InitColor ==
  /\ AtRest
  /\ call \in {[fn |-> "ColorPicker", thresholds |-> ts, value |-> v,
                returned |-> FALSE, raised |-> FALSE, result |-> <<>>] :
                 ts \in ThresholdLists, v \in Durations}

\* ColorPicker(thresholds)(value)
Pick ==
  /\ call.fn = "ColorPicker"
  /\ ~call.returned
  /\ LET cp == ColorPickerInit(call.thresholds)
     IN call' = [call EXCEPT !.returned = TRUE,
                             !.raised = cp.raised,
                             !.result = IF cp.raised THEN <<>>
                                        ELSE ColorPickerCall(cp, call.value)]
  /\ UNCHANGED programVars

NextColor == Pick

SpecColor == InitColor /\ [][NextColor]_vars

(***************************************************************************)
(* __format__, followed on its own, for a finished StopWatch whose report  *)
(* holds any durations.                                                    *)
(***************************************************************************)
\* how many lines a block of the report has
MaxLines == 4
\* the longest duration of a line
MaxDuration == 2

\* the report's lines for the durations: the line numbers from 1, each text
\* written as the number of its line
LinesOf(counts) ==
  [i \in 1..Len(counts) |-> [lno |-> i, count |-> counts[i], text |-> i]]
Blocks == UNION {{LinesOf(counts) : counts \in [1..n -> 0..MaxDuration]} : n \in 1..MaxLines}
\* a report of one block, or of that block and a short second one
Reports ==
  {[code \in {"f"} |-> b] : b \in Blocks}
    \cup {[code \in {"f", "m"} |-> IF code = "f" THEN b ELSE LinesOf(<<c>>)] :
            b \in Blocks, c \in {0, MaxDuration}}
RenderFormats ==
  {Fmt(NoText, flags, min_duration, thresholds) :
     flags \in SUBSET {"q", "Q", "b"},
     min_duration \in {NoText, NotANumber} \cup {Given(d) : d \in 0..MaxDuration},
     thresholds \in {NoList} \cup {Given(<<t>>) : t \in 0..MaxDuration}}

InitRender ==
  /\ AtRest
  /\ call \in {[fn |-> "__format__", report |-> r, fmt |-> f, returned |-> FALSE,
                text |-> NoOutput.text] :
                 r \in Reports, f \in RenderFormats}

\* format(sw, fmt) for a StopWatch that finish() gave the report
Render ==
  /\ call.fn = "__format__"
  /\ ~call.returned
  /\ LET S == [StopWatchInit({}) EXCEPT !.result = [is_none |-> FALSE, dict |-> call.report]]
     IN call' = [call EXCEPT !.returned = TRUE, !.text = format(S, call.fmt)]
  /\ UNCHANGED programVars

NextRender == Render

SpecRender == InitRender /\ [][NextRender]_vars

RECURSIVE Dedup(_, _)
\* the sequence without its later duplicates
Dedup(s, seen) ==
  IF s = <<>> THEN <<>>
  ELSE IF Head(s) \in seen THEN Dedup(Tail(s), seen)
  ELSE <<Head(s)>> \o Dedup(Tail(s), seen \cup {Head(s)})

RECURSIVE TopSplit(_, _, _)
\* the comma-joined specs of a selection string: split at the commas that are
\* outside every brace group (i the position read, from the start of the spec)
TopSplit(text, from, i) ==
  IF i > Len(text) THEN <<SubSeq(text, from, Len(text))>>
  ELSE IF text[i] = "{" THEN TopSplit(text, from, FirstAt(text, i, {"}"}) + 1)
  ELSE IF text[i] = ","
       THEN <<SubSeq(text, from, i - 1)>> \o TopSplit(text, i + 1, i + 1)
       ELSE TopSplit(text, from, i + 1)

RECURSIVE ShellExpand(_)
\* shell brace expansion of one spec whose groups are not nested: the cross
\* product of its groups, the leftmost group varying slowest
ShellExpand(spec) ==
  IF spec = <<>> THEN << <<>> >>
  ELSE LET j == IF Head(spec) = "{" THEN FirstAt(spec, 1, {"}"}) ELSE 1
           alts == IF Head(spec) = "{" THEN split(SubSeq(spec, 2, j - 1))
                   ELSE <<<<Head(spec)>>>>
           rest == ShellExpand(SubSeq(spec, j + 1, Len(spec)))
       IN Flatten([a \in 1..Len(alts) |->
                     [r \in 1..Len(rest) |-> alts[a] \o rest[r]]])

\* the reference expansion of a selection string: each spec expanded in turn,
\* later duplicates removed
Reference(text) ==
  LET specs == TopSplit(text, 1, 1)
  IN Dedup(Flatten([k \in 1..Len(specs) |-> ShellExpand(specs[k])]), {})

\* C11: brace expansion follows shell cross-product order, the leftmost group
\* varying slowest and the rightmost fastest: "{a,b}-{1,2}" yields a-1, a-2,
\* b-1, b-2 in that order, and every selection string yields its reference
\* shell expansion with later duplicates removed.
C11_ShellOrder ==
  (call.fn = "expand_braces" /\ call.returned) =>
    /\ call.text = <<"{", "a", ",", "b", "}", "-", "{", "1", ",", "2", "}">>
         => call.result = << <<"a", "-", "1">>, <<"a", "-", "2">>,
                             <<"b", "-", "1">>, <<"b", "-", "2">> >>
    /\ call.result = Reference(call.text)

\* C12: with N descending thresholds (N in 1..3) every value below the lowest
\* threshold gets exactly the best (last) color, and every value at or above
\* the highest threshold gets exactly the worst (first) color.
C12_BestAndWorstColor ==
  (call.fn = "ColorPicker" /\ call.returned /\ ~call.raised) =>
    LET n == Len(call.thresholds)
    IN /\ call.value < call.thresholds[n] => call.result = COLOR_RANGE[n][n + 1]
       /\ call.value >= call.thresholds[1] => call.result = COLOR_RANGE[n][1]

\* the format call has returned a text
Rendered == call.fn = "__format__" /\ call.returned /\ call.text.kind = "report"
\* the items of a block that is emitted whole: the header first, the rule and
\* the total last, lines and gap markers between
Whole(items) ==
  /\ Len(items) >= 3
  /\ items[1].kind = "header"
  /\ items[Len(items) - 1].kind = "rule"
  /\ items[Len(items)].kind = "total"
  /\ \A i \in 2..(Len(items) - 2) : items[i].kind \in {"line", "gap"}

\* C13: for every minimum total duration the format string supplies, a block
\* whose total is at or below it contributes nothing to the output, and a
\* block whose total is above it is emitted whole.
C13_MinDurationFilter ==
  (Rendered /\ call.fmt.min_duration.given) =>
    \A code \in DOMAIN call.report :
      IF total(call.report[code]) <= call.fmt.min_duration.value
      THEN call.text.blocks[code] = <<>>
      ELSE Whole(call.text.blocks[code])

\* the line is at or below the lowest threshold
Hidden(line, fmt) ==
  LET thresholds == IF fmt.thresholds.given THEN fmt.thresholds.value
                    ELSE DefaultThresholds
  IN line.count <= thresholds[Len(thresholds)]

RECURSIVE Collapsed(_, _, _)
\* the block's lines with every maximal run of hidden lines replaced by one
\* marker where the run begins (0 for a marker, else the line's number)
Collapsed(lines, fmt, i) ==
  IF i > Len(lines) THEN <<>>
  ELSE (IF ~Hidden(lines[i], fmt) THEN <<lines[i].lno>>
        ELSE IF i = 1 \/ ~Hidden(lines[i - 1], fmt) THEN <<0>>
        ELSE <<>>) \o Collapsed(lines, fmt, i + 1)

\* what a block shows between its header and its rule: 0 for a gap marker,
\* else the number of the line
Shown(items) ==
  [i \in 1..(Len(items) - 3) |->
     IF items[i + 1].kind = "gap" THEN 0 ELSE items[i + 1].lno]

\* C14: in collapse mode exactly one gap marker is emitted for each maximal
\* run of lines at or below the lowest threshold, at the run's place, and none
\* of those lines is printed; in hide-only mode those lines are dropped and
\* no marker is emitted.
C14_OneMarkerPerRun ==
  Rendered =>
    \A code \in DOMAIN call.report :
      LET lines == call.report[code]
          items == call.text.blocks[code]
      IN items # <<>> =>
           /\ "q" \in call.fmt.flags => Shown(items) = Collapsed(lines, call.fmt, 1)
           /\ ("Q" \in call.fmt.flags /\ "q" \notin call.fmt.flags) =>
                Shown(items) = SelectSeq([i \in 1..Len(lines) |->
                                            IF Hidden(lines[i], call.fmt) THEN 0
                                            ELSE lines[i].lno],
                                         LAMBDA x : x # 0)

\* a block was collapsed that begins with a run of two hidden lines, goes on
\* with a line that is shown and ends with a hidden line
C14_Witness ==
  /\ Rendered
  /\ call.fmt.flags = {"q"}
  /\ \E code \in DOMAIN call.report :
       /\ Len(call.report[code]) = 4
       /\ Hidden(call.report[code][1], call.fmt)
       /\ Hidden(call.report[code][2], call.fmt)
       /\ ~Hidden(call.report[code][3], call.fmt)
       /\ Hidden(call.report[code][4], call.fmt)
       /\ Shown(call.text.blocks[code]) = <<0, 3, 0>>

\* the thresholds of the format string have no color table
NoColorTable(fmt) ==
  fmt.thresholds.given /\ Len(fmt.thresholds.value) \notin DOMAIN COLOR_RANGE

\* C15: a threshold list that has no color table is rejected when the
\* ColorPicker is constructed, and that happens before any tracing begins: no
\* StopWatch whose report is to be rendered with it is started.
C15_RejectedBeforeTracing ==
  NoColorTable(setting) =>
    /\ ColorPickerInit(setting.thresholds.value).raised
    /\ hook = 0
    /\ \A r \in Requests : sw[r] = 0

\* C16: formatting a Finalized StopWatch, with any display options, leaves
\* its report, its table, its open-frame set and the hook slot unchanged, and
\* the text it returns is the text that a format call with the same options
\* returns after it.
C16_FormatLeavesFinalized ==
  [][\A e \in Engines :
       (out'.op = "format" /\ out'.e = e /\ Finalized(e))
         => /\ sws'[e].result = sws[e].result
            /\ sws'[e].times = sws[e].times
            /\ sws'[e].open_frames = sws[e].open_frames
            /\ hook' = hook
            /\ out'.text = format(sws'[e], out'.fmt)]_vars

\* a Finalized StopWatch whose hook is installed again was formatted, and the
\* text is a report that holds time
C16_Witness ==
  /\ out.op = "format"
  /\ Finalized(out.e)
  /\ hook = out.e
  /\ out.text.kind = "report"
  /\ \E code \in DOMAIN out.text.blocks : \E i \in DOMAIN out.text.blocks[code] :
       /\ out.text.blocks[code][i].kind = "total"
       /\ out.text.blocks[code][i].time.time > 0

\* C17: formatting a StopWatch that has not reached Finalized, Idle or
\* Running, with any format string, valid or not, returns the placeholder,
\* raises no error and does not change the StopWatch or the hook slot.
C17_UnfinishedPlaceholder ==
  [][\A e \in Engines :
       (out'.op = "format" /\ out'.e = e /\ ~Finalized(e))
         => /\ out'.text = [kind |-> "repr", finished |-> FALSE, blocks |-> <<>>]
            /\ sws'[e] = sws[e]
            /\ hook' = hook]_vars

\* a Running StopWatch that has traced a frame was formatted with thresholds
\* that have no color table, and the text is the placeholder
C17_Witness ==
  /\ out.op = "format"
  /\ NoColorTable(out.fmt)
  /\ Running(out.e)
  /\ sws[out.e].open_frames # {}
  /\ out.text.kind = "repr"

\* C18: on a line-advance event the new last timestamp is the clock reading
\* that the elapsed time was computed with, so that no interval between entry
\* and return is left out of the table, also when the clock advances while
\* the callback runs.
C18_LastTimestampIsNow ==
  [][\A e \in Engines : \A code \in DOMAIN sws'[e].t_last :
       (code \notin DOMAIN sws[e].t_last \/ sws'[e].t_last[code] # sws[e].t_last[code])
         => sws'[e].t_last[code] = clock]_vars

\* C19: once finish() has been called the StopWatch never presents itself as
\* unfinished: neither a format call nor repr gives the placeholder
\* "unfinished" for a Finalized StopWatch.
C19_FinalizedNeverUnfinished ==
  (out.op \in {"format", "repr"} /\ Finalized(out.e))
    => ~(out.text.kind = "repr" /\ ~out.text.finished)

\* C20: in the report finish() builds, the triple of the i-th captured line
\* of a code (i from 0) has the number of the first captured line plus i, the
\* time the table holds for that number, and the text of that line.
C20_TripleOfItsLine ==
  \A e \in Engines :
    (lastOp.op = "finish" /\ lastOp.e = e) =>
      \A code \in DOMAIN sws[e].result.dict :
        LET lines == sws[e].result.dict[code]
            first == IF code = "m" THEN 1 ELSE DefLine
        IN \A i \in DOMAIN lines :
             /\ lines[i].lno = first + (i - 1)
             /\ lines[i].count = sws[e].times[code][first + (i - 1)]
             /\ lines[i].text = first + (i - 1)

====
